---------------------------- MODULE Spec2Model ----------------------------
(***************************************************************************)
(* DataLoader (src/data_loader.py): a procurement table is renamed,        *)
(* validated, normalised and turned into a seven-sheet workbook that is    *)
(* saved at an output path.                                                *)
(*                                                                         *)
(* A table is [cols |-> sequence of column names, rows |-> sequence of     *)
(* rows], each row a sequence with one cell per column.  A cell is a       *)
(* record [t, n, s, tod]: t is the kind of the value ("null", "num",       *)
(* "str", "ts" for a pandas Timestamp, "nat" for pandas NaT), n its number *)
(* (for a Timestamp: the days since 1970-01-01), s its text and tod the    *)
(* time of day of a Timestamp, <<seconds, nanoseconds>>.  Quotients are    *)
(* kept exact as [num, den].                                               *)
(***************************************************************************)
EXTENDS Integers, Sequences, FiniteSets, TLC

\* ------------------------------------------------------------------ cells

Midnight == <<0, 0>>

Null == [t |-> "null", n |-> 0, s |-> "", tod |-> Midnight]

NaT == [t |-> "nat", n |-> 0, s |-> "", tod |-> Midnight]

Num(x) == [t |-> "num", n |-> x, s |-> "", tod |-> Midnight]

Str(x) == [t |-> "str", n |-> 0, s |-> x, tod |-> Midnight]

Ts(days, tod) == [t |-> "ts", n |-> days, s |-> "", tod |-> tod]

\* pd.isna / Series.notna: None, NaN and NaT are the missing values.
IsNa(v) == v.t \in {"null", "nat"}

NotNa(v) == ~IsNa(v)

\* An exact quotient a / b (b = 0: the float division's inf or nan).
Quot(a, b) == [num |-> a, den |-> b]

\* ------------------------------------------------------- sequence helpers

Range(f) == {f[i] : i \in DOMAIN f}

RECURSIVE SeqSum(_)
SeqSum(q) == IF q = <<>> THEN 0 ELSE Head(q) + SeqSum(Tail(q))

\* The members of the index set S, in increasing order.
RECURSIVE SelectIdx(_)
SelectIdx(S) ==
    IF S = {} THEN <<>>
    ELSE LET i == CHOOSE a \in S : \A b \in S : a <= b
         IN <<i>> \o SelectIdx(S \ {i})

\* The smallest index of q holding x (0: none).
IndexOf(q, x) ==
    IF \E i \in DOMAIN q : q[i] = x
    THEN CHOOSE i \in DOMAIN q : q[i] = x /\ \A j \in 1..(i - 1) : q[j] # x
    ELSE 0

\* --------------------------------------------------------- calendar dates

\* Days since 1970-01-01 of the proleptic Gregorian date y-m-d.
DaysFromCivil(y, m, d) ==
    LET yy  == IF m <= 2 THEN y - 1 ELSE y
        era == yy \div 400
        yoe == yy - era * 400
        mp  == IF m > 2 THEN m - 3 ELSE m + 9
        doy == (153 * mp + 2) \div 5 + d - 1
        doe == yoe * 365 + yoe \div 4 - yoe \div 100 + doy
    IN era * 146097 + doe - 719468

\* The Gregorian date <<y, m, d>> that is z days after 1970-01-01.
CivilFromDays(z) ==
    LET zz  == z + 719468
        era == zz \div 146097
        doe == zz - era * 146097
        yoe == (doe - doe \div 1460 + doe \div 36524 - doe \div 146096) \div 365
        doy == doe - (365 * yoe + yoe \div 4 - yoe \div 100)
        mp  == (5 * doy + 2) \div 153
        d   == doy - (153 * mp + 2) \div 5 + 1
        m   == IF mp < 10 THEN mp + 3 ELSE mp - 9
        y   == yoe + era * 400 + (IF m <= 2 THEN 1 ELSE 0)
    IN <<y, m, d>>

\* The serial-number threshold of _parse_date.
SerialThreshold == 25569

\* Timestamp('1899-12-30'), the origin of the serial numbers, as days since
\* 1970-01-01.
SerialOrigin == DaysFromCivil(1899, 12, 30)

\* The last day a nanosecond Timestamp can hold (2262-04-11): a later day
\* makes pd.to_datetime raise OutOfBoundsDatetime.
MaxTimestampDay == 106751

\* pd.to_datetime(val, unit='D', origin='1899-12-30'): the Timestamp val
\* days after the origin; "raise" when it is out of bounds.
SerialToDatetime(val) ==
    LET day == SerialOrigin + val
    IN IF day > MaxTimestampDay THEN [ok |-> FALSE, v |-> NaT]
       ELSE [ok |-> TRUE, v |-> Ts(day, Midnight)]

\* The texts pd.to_datetime parses, with the date each denotes; any other
\* text makes it raise.
DateText ==
    [s \in {"2023-01-01", "2023-01-02", "2023-02-03", "2022-01-01"} |->
        CASE s = "2023-01-01" -> <<2023, 1, 1>>
          [] s = "2023-01-02" -> <<2023, 1, 2>>
          [] s = "2023-02-03" -> <<2023, 2, 3>>
          [] s = "2022-01-01" -> <<2022, 1, 1>>]

\* pd.to_datetime(val): a number counts nanoseconds since 1970-01-01, a
\* text is parsed as a date (the empty text is NaT, without an error), a
\* Timestamp is kept.
ToDatetime(val) ==
    CASE val.t = "num" ->
            [ok |-> TRUE,
             v |-> Ts((val.n \div 1000000000) \div 86400,
                      <<(val.n \div 1000000000) % 86400, val.n % 1000000000>>)]
      [] val.t = "str" ->
            IF val.s = "" THEN [ok |-> TRUE, v |-> NaT]
            ELSE IF val.s \in DOMAIN DateText
            THEN [ok |-> TRUE,
                  v |-> Ts(DaysFromCivil(DateText[val.s][1], DateText[val.s][2],
                                         DateText[val.s][3]), Midnight)]
            ELSE [ok |-> FALSE, v |-> NaT]
      [] val.t = "ts" -> [ok |-> TRUE, v |-> val]
      [] OTHER -> [ok |-> TRUE, v |-> NaT]

\* A variant of _parse_date that takes the threshold itself for a serial
\* number (>= for >).
ParseDate_Inclusive(val) ==
    IF IsNa(val) THEN val
    ELSE IF val.t = "num" /\ val.n >= SerialThreshold /\ SerialToDatetime(val.n).ok
         THEN SerialToDatetime(val.n).v
         ELSE IF ToDatetime(val).ok THEN ToDatetime(val).v ELSE NaT

\* DataLoader._parse_date
ParseDate(val) ==
    IF IsNa(val) THEN val
    ELSE IF val.t = "num" /\ val.n > SerialThreshold /\ SerialToDatetime(val.n).ok
         THEN SerialToDatetime(val.n).v
         ELSE IF ToDatetime(val).ok THEN ToDatetime(val).v ELSE NaT

\* ----------------------------------------------------------------- tables

NRows(df) == Len(df.rows)

NCols(df) == Len(df.cols)

HasCol(df, name) == name \in Range(df.cols)

\* The positions of the columns labelled name (several after a rename onto
\* a label the table already has).
ColPositions(df, name) == SelectIdx({i \in 1..NCols(df) : df.cols[i] = name})

\* df[name] is a Series when exactly one column has the label, and a
\* DataFrame of all of them otherwise.
IsSeries(df, name) == Len(ColPositions(df, name)) = 1

\* df[name] as the sequence of its cells, row by row.
Column(df, name) ==
    [r \in 1..NRows(df) |-> df.rows[r][ColPositions(df, name)[1]]]

\* df[name] = values
SetColumn(df, name, values) ==
    [df EXCEPT !.rows =
        [r \in 1..NRows(df) |->
            [c \in 1..NCols(df) |->
                IF df.cols[c] = name THEN values[r] ELSE df.rows[r][c]]]]

\* ------------------------------------------------- load: mapping, checks

\* inv_map of load: source name -> internal name, over the entries of
\* mapping_info (a sequence of [k, v] in the dict's order) whose source is a
\* column of the table; a later entry with the same source replaces an
\* earlier one.
InvMap(mapping_info, df) ==
    LET live == SelectIdx({i \in 1..Len(mapping_info) :
                              mapping_info[i].v \in Range(df.cols)})
        srcs == {mapping_info[live[j]].v : j \in DOMAIN live}
        last(s) == CHOOSE i \in Range(live) :
                      /\ mapping_info[i].v = s
                      /\ \A j \in Range(live) : mapping_info[j].v = s => j <= i
    IN [s \in srcs |-> mapping_info[last(s)].k]

\* A variant of RenameColumns that hands rename the mapping as given
\* (internal name -> source name), not inverted.
RenameColumns_NotInverted(df, mapping_info) ==
    [df EXCEPT !.cols =
        [c \in 1..NCols(df) |->
            IF \E i \in DOMAIN mapping_info : mapping_info[i].k = df.cols[c]
            THEN mapping_info[CHOOSE i \in DOMAIN mapping_info :
                                 mapping_info[i].k = df.cols[c]].v
            ELSE df.cols[c]]]

\* df.rename(columns=inv_map), skipped for an empty or absent mapping.
RenameColumns(df, mapping_info) ==
    IF mapping_info = <<>> THEN df
    ELSE LET inv == InvMap(mapping_info, df)
         IN [df EXCEPT !.cols =
                [c \in 1..NCols(df) |->
                    IF df.cols[c] \in DOMAIN inv THEN inv[df.cols[c]]
                    ELSE df.cols[c]]]

\* df.empty: some axis of the table has length 0.
IsEmpty(df) == NRows(df) = 0 \/ NCols(df) = 0

required_fields == <<"vendor", "amount", "date">>

\* A variant of MissingFields that lists the fields in the reverse order.
MissingFields_Reversed(df) ==
    LET live == SelectIdx({i \in 1..Len(required_fields) :
                              ~HasCol(df, required_fields[i])})
    IN [j \in DOMAIN live |-> required_fields[live[Len(live) + 1 - j]]]

\* missing = [f for f in required_fields if f not in df.columns]
MissingFields(df) ==
    LET live == SelectIdx({i \in 1..Len(required_fields) :
                              ~HasCol(df, required_fields[i])})
    IN [j \in DOMAIN live |-> required_fields[live[j]]]

\* ---------------------------------------------------- load: normalisation

\* The texts pd.to_numeric parses, with the number each denotes.
NumericText ==
    [s \in {"100", "250"} |-> IF s = "100" THEN 100 ELSE 250]

\* pd.to_numeric(..., errors='coerce') of one cell: a number is kept, a
\* numeric text is parsed, anything else becomes NaN.
ToNumeric(v) ==
    CASE v.t = "num" -> v
      [] v.t = "str" /\ v.s \in DOMAIN NumericText -> Num(NumericText[v.s])
      [] OTHER -> Null

\* The Series that Series.apply builds from the parsed cells: as soon as
\* one cell is a Timestamp or NaT the column is datetime64 and its other
\* missing cells are NaT as well.
InferDatetime(values) ==
    IF \E i \in DOMAIN values : values[i].t \in {"ts", "nat"}
    THEN [i \in DOMAIN values |-> IF IsNa(values[i]) THEN NaT ELSE values[i]]
    ELSE values

\* df['amount'] = pd.to_numeric(df['amount'], errors='coerce')
NormalizeAmount(df) ==
    SetColumn(df, "amount",
              [r \in 1..NRows(df) |-> ToNumeric(Column(df, "amount")[r])])

\* df['date'] = df['date'].apply(self._parse_date)
NormalizeDate(df) ==
    SetColumn(df, "date",
              InferDatetime([r \in 1..NRows(df) |->
                                ParseDate(Column(df, "date")[r])]))

\* ------------------------------------------------------------ aggregation

\* The order in which pandas sorts the texts that occur as group keys.
TextOrder ==
    <<"A", "B", "C", "D", "E", "F", "G", "H", "Hardware", "IT", "Services">>

\* The sort key of a group key: a text by its place in TextOrder, a number
\* (a month) by its value.
KeyRank(v) == IF v.t = "str" THEN IndexOf(TextOrder, v.s) ELSE v.n

\* The distinct non-missing cells of a column, in ascending order: the
\* group keys of df.groupby(...), which drops missing keys and sorts.
RECURSIVE SortKeys(_)
SortKeys(S) ==
    IF S = {} THEN <<>>
    ELSE LET lo == CHOOSE k \in S : \A o \in S : KeyRank(k) <= KeyRank(o)
         IN <<lo>> \o SortKeys(S \ {lo})

GroupKeys(col) == SortKeys({col[r] : r \in {x \in DOMAIN col : NotNa(col[x])}})

\* The rows of one group, in table order.
GroupRows(col, key) == SelectIdx({r \in 1..Len(col) : col[r] = key})

\* Series.sum over the given rows: missing amounts are skipped, no amount
\* at all sums to 0.
SumOver(amounts, rws) ==
    SeqSum([j \in DOMAIN rws |->
                IF NotNa(amounts[rws[j]]) THEN amounts[rws[j]].n ELSE 0])

\* Series.count over the given rows: the non-missing amounts.
CountOver(amounts, rws) ==
    SeqSum([j \in DOMAIN rws |-> IF NotNa(amounts[rws[j]]) THEN 1 ELSE 0])

\* Series.nunique over the given rows: the distinct non-missing cells.
NUniqueOver(col, rws) ==
    Cardinality({col[rws[j]] : j \in {x \in DOMAIN rws : NotNa(col[rws[x]])}})

AllRows(df) == [r \in 1..NRows(df) |-> r]

\* A variant of the grand total that sums the rows of the vendor groups
\* only, leaving out the rows without a vendor.
TotalSpend_Grouped(df) ==
    SumOver(Column(df, "amount"),
            SelectIdx({r \in 1..NRows(df) : NotNa(Column(df, "vendor")[r])}))

\* df['amount'].sum()
TotalSpend(df) == SumOver(Column(df, "amount"), AllRows(df))

\* The indices of keys in descending order of key, equal keys in index
\* order.
RECURSIVE DescOrder(_, _)
DescOrder(keys, left) ==
    IF left = {} THEN <<>>
    ELSE LET i == CHOOSE a \in left :
                     \A b \in left : \/ keys[a] > keys[b]
                                     \/ keys[a] = keys[b] /\ a <= b
         IN <<i>> \o DescOrder(keys, left \ {i})

\* q in descending order of its field by, equal keys in their order in q.
SortDesc(q, by) ==
    LET order == DescOrder([i \in DOMAIN q |-> q[i][by]], DOMAIN q)
    IN [j \in DOMAIN q |-> q[order[j]]]

\* DataFrame.nlargest(n, column), keep='first'
NLargest(n, q, by) ==
    LET sorted == SortDesc(q, by)
    IN SubSeq(sorted, 1, IF Len(sorted) < n THEN Len(sorted) ELSE n)

\* df.groupby('vendor')['amount'].agg(['sum', 'count']): one record per
\* vendor, in key order.
VendorStats(df) ==
    LET vendors == Column(df, "vendor")
        amounts == Column(df, "amount")
        keys    == GroupKeys(vendors)
    IN [g \in DOMAIN keys |->
            [vendor |-> keys[g].s,
             sum    |-> SumOver(amounts, GroupRows(vendors, keys[g])),
             count  |-> CountOver(amounts, GroupRows(vendors, keys[g]))]]

\* ----------------------------------------------------- section generators

\* The number of rows of the top-vendor list of the summary.
TopN == 5

\* A variant of top_vendors that takes the first five vendors as the
\* grouping lists them (head(5) for nlargest(5, 'sum')).
TopVendors_Head(df) ==
    LET stats == VendorStats(df)
        top   == SubSeq(stats, 1, IF Len(stats) < TopN THEN Len(stats) ELSE TopN)
    IN [i \in DOMAIN top |->
            [rank   |-> i,
             vendor |-> top[i].vendor,
             sum    |-> top[i].sum,
             pct    |-> Quot(top[i].sum, TotalSpend(df)),
             count  |-> top[i].count]]

\* top_vendors of _create_executive_summary, as written to the sheet.
TopVendors(df) ==
    LET top == NLargest(TopN, VendorStats(df), "sum")
    IN [i \in DOMAIN top |->
            [rank   |-> i,
             vendor |-> top[i].vendor,
             sum    |-> top[i].sum,
             pct    |-> Quot(top[i].sum, TotalSpend(df)),
             count  |-> top[i].count]]

\* The period line: the first and last date of the table, "Unknown" when
\* no date is left (NaT has no strftime).
Period(df) ==
    LET dates == Column(df, "date")
        days  == {dates[r].n : r \in {x \in DOMAIN dates : dates[x].t = "ts"}}
    IN IF days = {} THEN [known |-> FALSE, min |-> <<>>, max |-> <<>>]
       ELSE [known |-> TRUE,
             min |-> CivilFromDays(CHOOSE d \in days : \A o \in days : d <= o),
             max |-> CivilFromDays(CHOOSE d \in days : \A o \in days : d >= o)]

\* The content of sheet "Executive Summary".
ExecutiveSummary(df) ==
    [period       |-> Period(df),
     total_spend  |-> TotalSpend(df),
     tx_count     |-> NRows(df),
     vendor_count |-> NUniqueOver(Column(df, "vendor"), AllRows(df)),
     avg_tx       |-> Quot(TotalSpend(df),
                           CountOver(Column(df, "amount"), AllRows(df))),
     cat_count    |-> IF HasCol(df, "category")
                      THEN NUniqueOver(Column(df, "category"), AllRows(df))
                      ELSE 0,
     top_vendors  |-> TopVendors(df)]

\* The content of sheet "Spend by Vendor": one row per vendor, in
\* descending order of total spend.  (No table of the model has a
\* vendor_country column.)
VendorAnalysis(df) ==
    LET sorted == SortDesc(VendorStats(df), "sum")
    IN [i \in DOMAIN sorted |->
            [Rank               |-> i,
             VendorName         |-> sorted[i].vendor,
             TotalSpend         |-> sorted[i].sum,
             TransactionCount   |-> sorted[i].count,
             AverageTransaction |-> Quot(sorted[i].sum, sorted[i].count),
             PctOfTotalSpend    |-> Quot(sorted[i].sum, TotalSpend(df))]]

\* The content of sheet "Spend by Category": the placeholder line when the
\* table has no category column.
CategoryAnalysis(df) ==
    IF ~HasCol(df, "category") THEN [placeholder |-> TRUE, rows |-> <<>>]
    ELSE
      LET cats    == Column(df, "category")
          amounts == Column(df, "amount")
          keys    == GroupKeys(cats)
          stats   == [g \in DOMAIN keys |->
                        [Category         |-> keys[g].s,
                         TotalSpend       |-> SumOver(amounts, GroupRows(cats, keys[g])),
                         TransactionCount |-> CountOver(amounts, GroupRows(cats, keys[g])),
                         NumberOfVendors  |-> NUniqueOver(Column(df, "vendor"),
                                                          GroupRows(cats, keys[g]))]]
          sorted  == SortDesc(stats, "TotalSpend")
      IN [placeholder |-> FALSE,
          rows |-> [i \in DOMAIN sorted |->
                      [Rank             |-> i,
                       Category         |-> sorted[i].Category,
                       TotalSpend       |-> sorted[i].TotalSpend,
                       PctOfTotalSpend  |-> Quot(sorted[i].TotalSpend, TotalSpend(df)),
                       TransactionCount |-> sorted[i].TransactionCount,
                       NumberOfVendors  |-> sorted[i].NumberOfVendors]]]

\* The content of sheet "Monthly Trends": one row per month that has a
\* dated row, in month order.
MonthlyTrends(df) ==
    LET dates   == Column(df, "date")
        amounts == Column(df, "amount")
        month   == [r \in DOMAIN dates |->
                      IF dates[r].t = "ts"
                      THEN Num(CivilFromDays(dates[r].n)[1] * 12
                               + CivilFromDays(dates[r].n)[2] - 1)
                      ELSE NaT]
        keys    == GroupKeys(month)
    IN [g \in DOMAIN keys |->
            [Month              |-> <<keys[g].n \div 12, (keys[g].n % 12) + 1>>,
             TotalSpend         |-> SumOver(amounts, GroupRows(month, keys[g])),
             TransactionCount   |-> CountOver(amounts, GroupRows(month, keys[g])),
             AverageTransaction |-> Quot(SumOver(amounts, GroupRows(month, keys[g])),
                                         CountOver(amounts, GroupRows(month, keys[g]))),
             NumberOfVendors    |-> NUniqueOver(Column(df, "vendor"),
                                                GroupRows(month, keys[g]))]]

\* The tail-spend threshold of _create_insights.
TailThreshold == 5000

\* The number of vendors of the concentration insight.
ConcentrationN == 10

\* The risk level of a concentration of top over total: the percentage is
\* nan, and the level Low, when the total is 0.
RiskLevel(top, total) ==
    IF total = 0 THEN "Low"
    ELSE IF top * 100 > 80 * total THEN "High"
    ELSE IF top * 100 > 50 * total THEN "Medium"
    ELSE "Low"

\* A variant of the insights in which a vendor at the threshold is a tail
\* vendor as well (<= for <).
Insights_Inclusive(df) ==
    LET stats == VendorStats(df)
        tail  == SelectIdx({g \in 1..Len(stats) : stats[g].sum <= TailThreshold})
        tail_spend == SeqSum([j \in DOMAIN tail |-> stats[tail[j]].sum])
        top   == NLargest(ConcentrationN, stats, "sum")
        top_10_spend == SeqSum([j \in DOMAIN top |-> top[j].sum])
        consolidation ==
            IF tail # <<>>
            THEN <<[title |-> "SUPPLIER CONSOLIDATION", count |-> Len(tail),
                    spend |-> tail_spend,
                    pct   |-> Quot(0, 1), risk |-> ""]>>
            ELSE <<>>
        concentration ==
            <<[title |-> "VENDOR CONCENTRATION", count |-> Len(top),
               spend |-> top_10_spend,
               pct   |-> Quot(top_10_spend * 100, TotalSpend(df)),
               risk  |-> RiskLevel(top_10_spend, TotalSpend(df))]>>
        insights == consolidation \o concentration
    IN [i \in DOMAIN insights |-> [idx |-> i, insight |-> insights[i]]]

\* insights of _create_insights, each numbered by its place in the list.
Insights(df) ==
    LET stats == VendorStats(df)
        tail  == SelectIdx({g \in 1..Len(stats) : stats[g].sum < TailThreshold})
        tail_spend == SeqSum([j \in DOMAIN tail |-> stats[tail[j]].sum])
        top   == NLargest(ConcentrationN, stats, "sum")
        top_10_spend == SeqSum([j \in DOMAIN top |-> top[j].sum])
        consolidation ==
            IF tail # <<>>
            THEN <<[title |-> "SUPPLIER CONSOLIDATION", count |-> Len(tail),
                    spend |-> tail_spend,
                    pct   |-> Quot(0, 1), risk |-> ""]>>
            ELSE <<>>
        concentration ==
            <<[title |-> "VENDOR CONCENTRATION", count |-> Len(top),
               spend |-> top_10_spend,
               pct   |-> Quot(top_10_spend * 100, TotalSpend(df)),
               risk  |-> RiskLevel(top_10_spend, TotalSpend(df))]>>
        insights == consolidation \o concentration
    IN [i \in DOMAIN insights |-> [idx |-> i, insight |-> insights[i]]]

\* The content of sheet "Detailed Data": the table itself.
DetailedData(df) == df

\* A variant of the status in which OK needs more than 90 (> for >=).
QualityStatus_Strict(nonnull, rows) ==
    IF nonnull * 100 > 90 * rows THEN "OK"
    ELSE IF nonnull * 100 >= 70 * rows THEN "WARNING"
    ELSE "CRITICAL"

\* The status of a column with nonnull of rows cells present.
QualityStatus(nonnull, rows) ==
    IF nonnull * 100 >= 90 * rows THEN "OK"
    ELSE IF nonnull * 100 >= 70 * rows THEN "WARNING"
    ELSE "CRITICAL"

\* df.notna().sum() of the column at position c.
NonNullAt(df, c) ==
    Cardinality({r \in 1..NRows(df) : NotNa(df.rows[r][c])})

\* The content of sheet "Data Quality Report": the overall score and one
\* row per column, in column order.
DataQualityReport(df) ==
    [overall_score |->
        Quot(SeqSum([c \in 1..NCols(df) |-> NonNullAt(df, c) * 100]),
             NRows(df) * NCols(df)),
     rows |-> [c \in 1..NCols(df) |->
                 [field        |-> df.cols[c],
                  completeness |-> Quot(NonNullAt(df, c) * 100, NRows(df)),
                  status       |-> QualityStatus(NonNullAt(df, c), NRows(df))]]]

\* ------------------------------------------------------------------ state

VARIABLES
    arg_df,        \* the caller's table, passed as df
    mapping_info,  \* the mapping_info argument: <<>> for None or {}
    arg_path,      \* the output_path argument: NoPath for None
    now,           \* the clock, in seconds
    pc,            \* the place of the running call in load
    df,            \* load's local table
    output_path,   \* load's local output path
    wb,            \* the workbook: [open, sheets]
    dirs,          \* the directories that exist
    files,         \* the files that exist: path -> [sheets, call]
    err,           \* the exception the call raised: NoError for none
    returned       \* the paths the calls have returned, call by call

vars == <<arg_df, mapping_info, arg_path, now, pc, df, output_path, wb, dirs,
          files, err, returned>>

\* A path is [dir, file, stamp]: dir is "" for a bare file name and stamp
\* is the second a generated name embeds, -1 for a given name.
NoPath == [dir |-> "", file |-> "", stamp |-> -1]

\* f"procurement_analysis_{timestamp}.xlsx", timestamp to the second.
DefaultPath(clock) ==
    [dir |-> "", file |-> "procurement_analysis", stamp |-> clock]

NoError == [type |-> "", msg |-> "", fields |-> <<>>]

EmptyInputError ==
    [type |-> "ValueError", msg |-> "Cannot generate report from empty DataFrame",
     fields |-> <<>>]

MissingFieldsError(missing) ==
    [type |-> "ValueError", msg |-> "Missing required fields", fields |-> missing]

\* What pandas raises when a label that must name one column names several.
DuplicateLabelError(label) ==
    [type |-> "TypeError", msg |-> "not a Series", fields |-> <<label>>]

NoWorkbook == [open |-> FALSE, sheets |-> <<>>]

SheetNames(sheets) == [i \in DOMAIN sheets |-> sheets[i].name]

\* The number of the running call.
CallNo == Len(returned) + 1

\* except Exception as e: logger.error(...); raise
Raise(e) ==
    /\ pc' = "raised"
    /\ err' = e

\* wb.create_sheet(name), filled with body.
AddSheet(name, body) ==
    wb' = [wb EXCEPT !.sheets = Append(@, [name |-> name, body |-> body])]

\* ---------------------------------------------------------------- actions

\* 1. Column Mapping: the copy of the table is renamed.
MapColumns ==
    /\ pc = "start"
    /\ df' = RenameColumns(arg_df, mapping_info)
    /\ pc' = "validate"
    /\ UNCHANGED <<arg_df, mapping_info, arg_path, now, output_path, wb, dirs,
                   files, err, returned>>

\* 2. Validation: the empty table.
RaiseEmpty ==
    /\ pc = "validate"
    /\ IsEmpty(df)
    /\ Raise(EmptyInputError)
    /\ UNCHANGED <<arg_df, mapping_info, arg_path, now, df, output_path, wb,
                   dirs, files, returned>>

\* A variant of the validation that looks for missing fields before it
\* looks at the rows.
RaiseMissing_First ==
    /\ pc = "validate"
    /\ MissingFields(df) # <<>>
    /\ Raise(MissingFieldsError(MissingFields(df)))
    /\ UNCHANGED <<arg_df, mapping_info, arg_path, now, df, output_path, wb,
                   dirs, files, returned>>

\* 2. Validation: a required field is missing.
RaiseMissing ==
    /\ pc = "validate"
    /\ ~IsEmpty(df)
    /\ MissingFields(df) # <<>>
    /\ Raise(MissingFieldsError(MissingFields(df)))
    /\ UNCHANGED <<arg_df, mapping_info, arg_path, now, df, output_path, wb,
                   dirs, files, returned>>

\* 2. Validation passes.
Validated ==
    /\ pc = "validate"
    /\ ~IsEmpty(df)
    /\ MissingFields(df) = <<>>
    /\ pc' = "normalize"
    /\ UNCHANGED <<arg_df, mapping_info, arg_path, now, df, output_path, wb,
                   dirs, files, err, returned>>

\* 3. Data Type Normalization.
Normalize ==
    /\ pc = "normalize"
    /\ IsSeries(df, "amount")
    /\ IsSeries(df, "date")
    /\ df' = NormalizeDate(NormalizeAmount(df))
    /\ pc' = "path"
    /\ UNCHANGED <<arg_df, mapping_info, arg_path, now, output_path, wb, dirs,
                   files, err, returned>>

\* 3. Data Type Normalization of a table in which the rename has left two
\* columns labelled amount (pd.to_numeric rejects a DataFrame) or two
\* labelled date (the DataFrame's apply hands _parse_date a whole column).
NormalizeRaise ==
    /\ pc = "normalize"
    /\ \/ /\ ~IsSeries(df, "amount")
          /\ df' = df
          /\ Raise(DuplicateLabelError("amount"))
       \/ /\ IsSeries(df, "amount")
          /\ ~IsSeries(df, "date")
          /\ df' = NormalizeAmount(df)
          /\ Raise([DuplicateLabelError("date") EXCEPT !.type = "ValueError"])
    /\ UNCHANGED <<arg_df, mapping_info, arg_path, now, output_path, wb, dirs,
                   files, returned>>

\* 4. Setup Output Path: the generated name, and the directory of the path.
SetupPath ==
    /\ pc = "path"
    /\ LET path == IF arg_path = NoPath THEN DefaultPath(now) ELSE arg_path
       IN /\ output_path' = path
          /\ dirs' = IF path.dir # "" /\ path.dir \notin dirs
                     THEN dirs \cup {path.dir} ELSE dirs
    /\ pc' = "workbook"
    /\ UNCHANGED <<arg_df, mapping_info, arg_path, now, df, wb, files, err,
                   returned>>

\* 5. Create Workbook: Workbook() comes with the sheet "Sheet", which is
\* removed.
CreateWorkbook ==
    /\ pc = "workbook"
    /\ LET fresh == <<[name |-> "Sheet", body |-> <<>>]>>
           kept  == SelectIdx({i \in 1..Len(fresh) : fresh[i].name # "Sheet"})
       IN wb' = [open |-> TRUE, sheets |-> [j \in DOMAIN kept |-> fresh[kept[j]]]]
    /\ pc' = "summary"
    /\ UNCHANGED <<arg_df, mapping_info, arg_path, now, df, output_path, dirs,
                   files, err, returned>>

\* The labels _create_executive_summary formats as one number each.
SummaryLabelsOk(table) ==
    /\ IsSeries(table, "vendor")
    /\ HasCol(table, "category") => IsSeries(table, "category")

\* 6. _create_executive_summary
CreateExecutiveSummary ==
    /\ pc = "summary"
    /\ SummaryLabelsOk(df)
    /\ AddSheet("Executive Summary", ExecutiveSummary(df))
    /\ pc' = "vendor"
    /\ UNCHANGED <<arg_df, mapping_info, arg_path, now, df, output_path, dirs,
                   files, err, returned>>

\* A variant of the failing summary in which the workbook is saved on the
\* way out (a save in a finally clause).
ExecutiveSummaryRaise_Saved ==
    /\ pc = "summary"
    /\ ~SummaryLabelsOk(df)
    /\ AddSheet("Executive Summary", <<>>)
    /\ files' = [p \in DOMAIN files \cup {output_path} |->
                    IF p = output_path THEN [sheets |-> wb.sheets, call |-> CallNo]
                    ELSE files[p]]
    /\ Raise(DuplicateLabelError(IF IsSeries(df, "vendor") THEN "category"
                                 ELSE "vendor"))
    /\ UNCHANGED <<arg_df, mapping_info, arg_path, now, df, output_path, dirs,
                   returned>>

\* 6. _create_executive_summary of a table with two columns labelled vendor
\* (or category): the sheet exists, and formatting the count raises.
ExecutiveSummaryRaise ==
    /\ pc = "summary"
    /\ ~SummaryLabelsOk(df)
    /\ AddSheet("Executive Summary", <<>>)
    /\ Raise(DuplicateLabelError(IF IsSeries(df, "vendor") THEN "category"
                                 ELSE "vendor"))
    /\ UNCHANGED <<arg_df, mapping_info, arg_path, now, df, output_path, dirs,
                   files, returned>>

\* 6. _create_vendor_analysis
CreateVendorAnalysis ==
    /\ pc = "vendor"
    /\ AddSheet("Spend by Vendor", VendorAnalysis(df))
    /\ pc' = "category"
    /\ UNCHANGED <<arg_df, mapping_info, arg_path, now, df, output_path, dirs,
                   files, err, returned>>

\* 6. _create_category_analysis
CreateCategoryAnalysis ==
    /\ pc = "category"
    /\ AddSheet("Spend by Category", CategoryAnalysis(df))
    /\ pc' = "monthly"
    /\ UNCHANGED <<arg_df, mapping_info, arg_path, now, df, output_path, dirs,
                   files, err, returned>>

\* 6. _create_monthly_trends
CreateMonthlyTrends ==
    /\ pc = "monthly"
    /\ AddSheet("Monthly Trends", MonthlyTrends(df))
    /\ pc' = "insights"
    /\ UNCHANGED <<arg_df, mapping_info, arg_path, now, df, output_path, dirs,
                   files, err, returned>>

\* 6. _create_insights
CreateInsights ==
    /\ pc = "insights"
    /\ AddSheet("Top Insights", Insights(df))
    /\ pc' = "detail"
    /\ UNCHANGED <<arg_df, mapping_info, arg_path, now, df, output_path, dirs,
                   files, err, returned>>

\* 6. _create_detailed_data
CreateDetailedData ==
    /\ pc = "detail"
    /\ AddSheet("Detailed Data", DetailedData(df))
    /\ pc' = "quality"
    /\ UNCHANGED <<arg_df, mapping_info, arg_path, now, df, output_path, dirs,
                   files, err, returned>>

\* 6. _create_data_quality_report
CreateDataQualityReport ==
    /\ pc = "quality"
    /\ AddSheet("Data Quality Report", DataQualityReport(df))
    /\ pc' = "save"
    /\ UNCHANGED <<arg_df, mapping_info, arg_path, now, df, output_path, dirs,
                   files, err, returned>>

\* The files after wb.save(path) by call number call: the file at the path
\* is created or replaced.
SaveFile(fs, path, sheets, call) ==
    [p \in DOMAIN fs \cup {path} |->
        IF p = path THEN [sheets |-> sheets, call |-> call] ELSE fs[p]]

\* 7. Save: the workbook is written and the path returned.
Save ==
    /\ pc = "save"
    /\ files' = SaveFile(files, output_path, wb.sheets, CallNo)
    /\ returned' = Append(returned, output_path)
    /\ pc' = "done"
    /\ UNCHANGED <<arg_df, mapping_info, arg_path, now, df, output_path, wb,
                   dirs, err>>

\* ------------------------------------------------------------------ inputs

\* The most rows of a table of Spec.
MaxRows == 2

\* The most entries of a mapping.
MaxMap == 3

\* The column names of the tables of Spec, in table order.
ColumnPool == <<"Supplier", "vendor", "Cost", "amount", "TDate", "date">>

\* The cell of row r in the column called name: the odd rows hold usable
\* values, the even rows a missing vendor, an amount and a date that do not
\* parse, a numeric text as Cost and no TDate.
Cell(name, r) ==
    CASE name = "vendor"   -> IF r % 2 = 1 THEN Str("A") ELSE Null
      [] name = "Supplier" -> IF r % 2 = 1 THEN Str("B") ELSE Str("C")
      [] name = "amount"   -> IF r % 2 = 1 THEN Num(100) ELSE Str("bad")
      [] name = "Cost"     -> IF r % 2 = 1 THEN Num(250) ELSE Str("100")
      [] name = "date"     -> IF r % 2 = 1 THEN Str("2023-01-01") ELSE Str("garbage")
      [] name = "TDate"    -> IF r % 2 = 1 THEN Num(44562) ELSE Null
      [] OTHER             -> Str("IT")

\* The table of n rows with the given columns.
Table(cols, n) ==
    [cols |-> cols,
     rows |-> [r \in 1..n |-> [c \in DOMAIN cols |-> Cell(cols[c], r)]]]

\* Every selection of columns of the pool, with 0 to MaxRows rows.
ControlTables ==
    {Table(LET pick == SelectIdx(S)
           IN [j \in DOMAIN pick |-> ColumnPool[pick[j]]], n) :
        S \in SUBSET (1..Len(ColumnPool)), n \in 0..MaxRows}

MapEntries ==
    {[k |-> k, v |-> v] : k \in Range(required_fields),
                          v \in {"Supplier", "Cost", "TDate"}}

\* The mappings: up to MaxMap entries in dict order, the keys distinct.
Mappings ==
    {m \in UNION {[1..n -> MapEntries] : n \in 0..MaxMap} :
        \A i, j \in DOMAIN m : i # j => m[i].k # m[j].k}

GivenPath == [dir |-> "out", file |-> "report", stamp |-> -1]

\* The state in which load is called.
Called(table, mapping, path) ==
    /\ arg_df = table
    /\ mapping_info = mapping
    /\ arg_path = path
    /\ pc = "start"
    /\ df = table
    /\ output_path = NoPath
    /\ wb = NoWorkbook
    /\ err = NoError

Init ==
    /\ \E table \in ControlTables, mapping \in Mappings,
          path \in {NoPath, GivenPath} : Called(table, mapping, path)
    /\ now = 0
    /\ dirs = {}
    /\ files = <<>>
    /\ returned = <<>>

Next ==
    \/ MapColumns
    \/ RaiseEmpty
    \/ RaiseMissing
    \/ Validated
    \/ Normalize
    \/ NormalizeRaise
    \/ SetupPath
    \/ CreateWorkbook
    \/ CreateExecutiveSummary
    \/ ExecutiveSummaryRaise
    \/ CreateVendorAnalysis
    \/ CreateCategoryAnalysis
    \/ CreateMonthlyTrends
    \/ CreateInsights
    \/ CreateDetailedData
    \/ CreateDataQualityReport
    \/ Save

Spec == Init /\ [][Next]_vars

\* --------------------------------------------- the report specifications

\* The steps of a call that gets through validation and normalisation.
NextReport ==
    \/ MapColumns
    \/ Validated
    \/ Normalize
    \/ SetupPath
    \/ CreateWorkbook
    \/ CreateExecutiveSummary
    \/ CreateVendorAnalysis
    \/ CreateCategoryAnalysis
    \/ CreateMonthlyTrends
    \/ CreateInsights
    \/ CreateDetailedData
    \/ CreateDataQualityReport
    \/ Save

\* The most rows of a table of free cells.
MaxAggRows == 3

\* The date and the category of row r of a table of free cells.
RowDate(r) ==
    CASE r % 3 = 1 -> Str("2023-01-01")
      [] r % 3 = 2 -> Str("2023-01-02")
      [] OTHER     -> Str("2023-02-03")

RowCategory(r) == IF r % 2 = 1 THEN Str("IT") ELSE Str("Services")

\* The tables of free cells: 1 to MaxAggRows rows, each with any vendor of
\* A, B or none and any amount of 100, 150, 200 or none.
AggTables ==
    UNION {{[cols |-> <<"vendor", "amount", "date", "category">>,
             rows |-> [r \in 1..n |->
                         <<pick[r][1], pick[r][2], RowDate(r), RowCategory(r)>>]] :
               pick \in [1..n -> {Str("A"), Str("B"), Null}
                                 \X {Num(100), Num(150), Num(200), Null}]} :
           n \in 1..MaxAggRows}

\* The date cells: serial numbers at the threshold, at the last day a
\* Timestamp holds and beyond, a date text, a text that is no date, the
\* empty text, none (None of an object column, NaT of a datetime column).
DatePool ==
    {Num(0), Num(SerialThreshold - 1), Num(SerialThreshold),
     Num(SerialThreshold + 1), Num(44562),
     Num(MaxTimestampDay - SerialOrigin), Num(MaxTimestampDay - SerialOrigin + 1),
     Str("2022-01-01"), Str("garbage"), Str(""), Null, NaT}

\* The tables of 1 to MaxRows rows with any dates of the pool.
DateTables ==
    UNION {{[cols |-> <<"vendor", "amount", "date">>,
             rows |-> [r \in 1..n |-> <<Str("A"), Num(100), pick[r]>>]] :
               pick \in [1..n -> DatePool]} :
           n \in 1..MaxRows}

\* The most rows of a table of QualityTables.
MaxQualityRows == 10

\* The tables of 1 to MaxQualityRows rows in which each column is present
\* in its first rows only, any number of them: below, the vendor is
\* missing, and the amount and the date do not parse (odd rows) or are
\* missing (even rows).
QualityTables ==
    UNION {{[cols |-> <<"vendor", "amount", "date">>,
             rows |-> [r \in 1..n |->
                         <<IF r <= k[1] THEN Str("A") ELSE Null,
                           IF r <= k[2] THEN Num(100)
                           ELSE IF r % 2 = 1 THEN Str("bad") ELSE Null,
                           IF r <= k[3] THEN Str("2023-01-01")
                           ELSE IF r % 2 = 1 THEN Str("garbage") ELSE Null>>]] :
               k \in (0..n) \X (0..n) \X (0..n)} :
           n \in 1..MaxQualityRows}

\* The first state of a call load(table, output_path=GivenPath).
InitAgg ==
    /\ \E table \in AggTables \cup DateTables \cup QualityTables :
          Called(table, <<>>, GivenPath)
    /\ now = 0
    /\ dirs = {}
    /\ files = <<>>
    /\ returned = <<>>

SpecAgg == InitAgg /\ [][NextReport]_vars

\* The most rows of a table of RankTables.
MaxRankRows == 6

\* The vendors of RankTables, in the order in which a table brings them in.
VendorNames == <<"C", "A", "B", "F", "D", "E", "H", "G">>

\* The tables of 1 to MaxRankRows rows listed vendor by vendor: a row has
\* the vendor of the row before it or the next vendor of VendorNames, and
\* an amount of half the tail threshold or of the threshold.
RankTables ==
    UNION {{[cols |-> <<"vendor", "amount", "date">>,
             rows |-> [r \in 1..n |->
                         <<Str(VendorNames[1 + Cardinality({x \in 2..r : fresh[x]})]),
                           Num(amt[r]), Str("2023-01-01")>>]] :
               fresh \in [1..n -> BOOLEAN], amt \in [1..n -> {2500, 5000}]} :
           n \in 1..MaxRankRows}

InitRank ==
    /\ \E table \in RankTables : Called(table, <<>>, GivenPath)
    /\ now = 0
    /\ dirs = {}
    /\ files = <<>>
    /\ returned = <<>>

SpecRank == InitRank /\ [][NextReport]_vars

\* The most calls of SpecTwice.
MaxCalls == 2

\* The last second of the clock.
MaxClock == 2

\* A second passes.
Tick ==
    /\ now < MaxClock
    /\ now' = now + 1
    /\ UNCHANGED <<arg_df, mapping_info, arg_path, pc, df, output_path, wb,
                   dirs, files, err, returned>>

\* The caller calls load again, with the same arguments.
CallAgain ==
    /\ pc = "done"
    /\ Len(returned) < MaxCalls
    /\ pc' = "start"
    /\ df' = arg_df
    /\ output_path' = NoPath
    /\ wb' = NoWorkbook
    /\ UNCHANGED <<arg_df, mapping_info, arg_path, now, dirs, files, err,
                   returned>>

InitTwice ==
    /\ \E table \in {t \in AggTables : NRows(t) = 1}, path \in {NoPath, GivenPath} :
          Called(table, <<>>, path)
    /\ now = 0
    /\ dirs = {}
    /\ files = <<>>
    /\ returned = <<>>

NextTwice == NextReport \/ Tick \/ CallAgain

SpecTwice == InitTwice /\ [][NextTwice]_vars

\* ------------------------------------------------- properties of load (Spec)

SevenSheets ==
    <<"Executive Summary", "Spend by Vendor", "Spend by Category",
      "Monthly Trends", "Top Insights", "Detailed Data", "Data Quality Report">>

\* The call is over: it has returned or raised.
Over == pc \in {"done", "raised"}

\* The column names after mapping, stated on the arguments: a column that
\* is the source of a mapping entry takes the name of the last such entry.
MappedCols ==
    [c \in DOMAIN arg_df.cols |->
        LET hits == {i \in DOMAIN mapping_info : mapping_info[i].v = arg_df.cols[c]}
        IN IF hits = {} THEN arg_df.cols[c]
           ELSE mapping_info[CHOOSE i \in hits : \A j \in hits : j <= i].k]

\* The required fields that are no column after mapping.
Absent == {f \in Range(required_fields) : f \notin Range(MappedCols)}

\* C1: every call with a table of at least one row that has the columns
\* vendor, amount and date after mapping returns, and the saved workbook
\* holds exactly the seven sheets, in order.
C1_AlwaysSevenSheets ==
    (Over /\ NRows(arg_df) > 0 /\ Absent = {}) =>
        /\ pc = "done"
        /\ SheetNames(files[returned[1]].sheets) = SevenSheets

\* C2: a call with a table of zero rows does nothing but raise the
\* empty-input error: no step of it touches the caller's table, a
\* directory, a file or a workbook, it raises no other error, returns
\* nothing, and once the mapping is done the raise is the step to come.
C2_EmptyFailsFirst ==
    /\ [][NRows(arg_df) = 0 =>
            /\ pc' \in {"start", "validate", "raised"}
            /\ pc' = "raised" => err' = EmptyInputError
            /\ arg_df' = arg_df
            /\ dirs' = dirs
            /\ files' = files
            /\ wb' = NoWorkbook
            /\ returned' = <<>>]_vars
    /\ [](NRows(arg_df) = 0 /\ pc = "validate" => ENABLED RaiseEmpty)

\* An empty table that also lacks required fields has raised.
C2_Witness ==
    /\ pc = "raised"
    /\ err = EmptyInputError
    /\ NRows(arg_df) = 0
    /\ Absent # {}
    /\ mapping_info # <<>>
    /\ arg_path = GivenPath

\* The error list of a call that failed on missing fields: exactly the
\* absent required fields, each once, in the order vendor, amount, date;
\* and the call stopped after the mapping, before normalisation and before
\* any directory, file or workbook.
MissingReported ==
    /\ pc = "raised"
    /\ err.type = "ValueError"
    /\ err.msg = "Missing required fields"
    /\ Range(err.fields) = Absent
    /\ \A i, j \in DOMAIN err.fields :
          i < j => IndexOf(required_fields, err.fields[i])
                   < IndexOf(required_fields, err.fields[j])
    /\ df = [arg_df EXCEPT !.cols = MappedCols]
    /\ dirs = {}
    /\ files = <<>>
    /\ wb = NoWorkbook
    /\ returned = <<>>

\* C3 as stated: every call with a table of at least one row that lacks a
\* required field after mapping fails with the missing-fields error.
C3_Original ==
    (Over /\ NRows(arg_df) > 0 /\ Absent # {}) => MissingReported

\* C3, amended: every call with a table of at least one row and at least
\* one column that lacks a required field after mapping fails with the
\* missing-fields error (a table without columns is empty to the check
\* that comes first).
C3_MissingFields ==
    (Over /\ NRows(arg_df) > 0 /\ NCols(arg_df) > 0 /\ Absent # {}) =>
        MissingReported

\* The mapping has supplied the amount, and vendor and date are reported.
C3_Witness ==
    /\ pc = "raised"
    /\ NRows(arg_df) > 0
    /\ err.fields = <<"vendor", "date">>
    /\ HasCol(arg_df, "Cost")
    /\ ~HasCol(arg_df, "amount")
    /\ HasCol(df, "amount")

\* The mapping of the round trip: Supplier to vendor, Cost to amount and
\* TDate to date, in any order, onto a table that has the three sources.
RoundTrip ==
    /\ Range(mapping_info) = {[k |-> "vendor", v |-> "Supplier"],
                              [k |-> "amount", v |-> "Cost"],
                              [k |-> "date", v |-> "TDate"]}
    /\ {"Supplier", "Cost", "TDate"} \subseteq Range(arg_df.cols)

\* The sum of the numbers of the caller's Cost column.
CostSum ==
    LET cost == Column(arg_df, "Cost")
    IN SeqSum([r \in DOMAIN cost |->
                  IF NotNa(ToNumeric(cost[r])) THEN ToNumeric(cost[r]).n ELSE 0])

\* The grand total of the saved report is the sum of the Cost column.
RoundTripTotal ==
    (pc = "done" /\ RoundTrip) =>
        files[returned[1]].sheets[1].body.total_spend = CostSum

\* C4 as stated: after the mapping step every entry whose source is a
\* column has renamed that column to its key, no error is raised by the
\* step, and the round trip's grand total is the sum of the Cost column.
C4_Original ==
    /\ pc = "validate" =>
          /\ err = NoError
          /\ \A i \in DOMAIN mapping_info :
                \A c \in DOMAIN arg_df.cols :
                    arg_df.cols[c] = mapping_info[i].v =>
                        df.cols[c] = mapping_info[i].k
    /\ RoundTripTotal

\* C4, amended: after the mapping step every column that is the source of
\* a mapping entry bears the key of the last such entry, every other
\* column keeps its name, the cells are untouched and no error is raised
\* (entries naming an absent column do nothing); and the round trip's
\* grand total is the sum of the Cost column.
C4_Mapping ==
    /\ pc = "validate" =>
          /\ err = NoError
          /\ df.cols = MappedCols
          /\ df.rows = arg_df.rows
    /\ RoundTripTotal

\* The round trip on two rows: Cost holds 250 and the text "100".
C4_Witness ==
    /\ pc = "done"
    /\ RoundTrip
    /\ NRows(arg_df) = 2
    /\ files[returned[1]].sheets[1].body.total_spend = 350

\* The error a failed call carries names its cause.
CauseKept ==
    \/ err = EmptyInputError /\ IsEmpty(df)
    \/ err = MissingFieldsError(MissingFields(df)) /\ MissingFields(df) # <<>>
    \/ /\ err.msg = "not a Series"
       /\ Len(err.fields) = 1
       /\ ~IsSeries(df, err.fields[1])

\* C10: a file exists only once the save step has run, which is after the
\* seven section generators, and it holds their sheets; a call that raised
\* has written no file, returns no path and carries the cause; a path is
\* returned only by the save step, and names the file.
C10_AllOrNothing ==
    /\ files # <<>> =>
          /\ pc = "done"
          /\ DOMAIN files = {output_path}
          /\ files[output_path].sheets = wb.sheets
          /\ SheetNames(wb.sheets) = SevenSheets
    /\ pc = "raised" =>
          /\ files = <<>>
          /\ returned = <<>>
          /\ CauseKept
    /\ pc # "raised" => err = NoError
    /\ returned # <<>> =>
          /\ pc = "done"
          /\ returned = <<output_path>>
          /\ output_path \in DOMAIN files

\* A section generator has failed after the directory was made.
C10_Witness ==
    /\ pc = "raised"
    /\ Len(wb.sheets) = 1
    /\ dirs = {"out"}
    /\ files = <<>>

\* ------------------------------------------- properties of the report

\* The table has been normalised.
Normalized == pc \notin {"start", "validate", "normalize", "raised"}

\* The sheet called name of the workbook (when it has been generated).
Sheet(name) == wb.sheets[IndexOf(SheetNames(wb.sheets), name)].body

HasSheet(name) == IndexOf(SheetNames(wb.sheets), name) > 0

\* C5: a numeric date n above 25569 becomes the date n days after
\* 1899-12-30 (44562 becomes 2022-01-01) unless that conversion fails, and
\* then, as every n up to 25569 itself, it is parsed generically: as the
\* instant n nanoseconds after 1970-01-01, not as a day count.
C5_SerialDates ==
    Normalized =>
        \A r \in 1..NRows(df) :
            LET val == Column(arg_df, "date")[r]
                got == Column(df, "date")[r]
            IN val.t = "num" =>
                 /\ got.t = "ts"
                 /\ val.n = 44562 =>
                      CivilFromDays(got.n) = <<2022, 1, 1>> /\ got.tod = Midnight
                 /\ val.n > 25569 =>
                      \/ /\ got.n - DaysFromCivil(1899, 12, 30) = val.n
                         /\ got.tod = Midnight
                      \/ /\ DaysFromCivil(1899, 12, 30) + val.n > MaxTimestampDay
                         /\ got = ToDatetime(val).v
                 /\ val.n <= 25569 => got = ToDatetime(val).v
                 /\ (val.n <= 25569 /\ val.n >= 0) =>
                      /\ CivilFromDays(got.n) = <<1970, 1, 1>>
                      /\ got.tod = <<0, val.n>>

\* The threshold itself, left to generic parsing, beside the serial date
\* of the tests.
C5_Witness ==
    /\ Normalized
    /\ NRows(df) = 2
    /\ Column(arg_df, "date")[1] = Num(25569)
    /\ Column(df, "date")[1] = Ts(0, <<0, 25569>>)
    /\ Column(arg_df, "date")[2] = Num(44562)
    /\ CivilFromDays(Column(df, "date")[2].n) = <<2022, 1, 1>>

\* The vendors of the caller's table.
ArgVendors ==
    {Column(arg_df, "vendor")[r].s :
        r \in {x \in 1..NRows(arg_df) : Column(arg_df, "vendor")[x].t = "str"}}

\* The sum of the amounts of the rows of the caller's table in rws.
RECURSIVE ArgAmount(_)
ArgAmount(rws) ==
    IF rws = {} THEN 0
    ELSE LET r == CHOOSE x \in rws : TRUE
             a == Column(arg_df, "amount")[r]
         IN (IF a.t = "num" THEN a.n ELSE 0) + ArgAmount(rws \ {r})

VendorRows(x) ==
    {r \in 1..NRows(arg_df) : Column(arg_df, "vendor")[r] = Str(x)}

\* C6: the Spend by Vendor sheet has one row per vendor of the table, with
\* the sum of the amounts of the vendor's rows as total and that total
\* over the grand total as share; the summary's grand total is the sum of
\* all amounts and its vendor count the number of distinct vendors.
C6_VendorTotals ==
    /\ HasSheet("Spend by Vendor") =>
          LET rows == Sheet("Spend by Vendor")
          IN /\ {rows[i].VendorName : i \in DOMAIN rows} = ArgVendors
             /\ Len(rows) = Cardinality(ArgVendors)
             /\ \A i \in DOMAIN rows :
                   /\ rows[i].TotalSpend = ArgAmount(VendorRows(rows[i].VendorName))
                   /\ rows[i].PctOfTotalSpend =
                         Quot(rows[i].TotalSpend, ArgAmount(1..NRows(arg_df)))
    /\ HasSheet("Executive Summary") =>
          /\ Sheet("Executive Summary").total_spend = ArgAmount(1..NRows(arg_df))
          /\ Sheet("Executive Summary").vendor_count = Cardinality(ArgVendors)

\* The table of the tests ([A, B, A] with [100, 200, 150]), with A = 250,
\* B = 200, the grand total 450 and two vendors.
C6_Witness ==
    /\ pc = "done"
    /\ Column(arg_df, "vendor") = <<Str("A"), Str("B"), Str("A")>>
    /\ Column(arg_df, "amount") = <<Num(100), Num(200), Num(150)>>
    /\ Sheet("Spend by Vendor")[1].VendorName = "A"
    /\ Sheet("Spend by Vendor")[1].TotalSpend = 250
    /\ Sheet("Spend by Vendor")[2].VendorName = "B"
    /\ Sheet("Spend by Vendor")[2].TotalSpend = 200
    /\ Sheet("Executive Summary").total_spend = 450
    /\ Sheet("Executive Summary").vendor_count = 2

\* The cells of column c of the normalised table that are not missing.
Present(c) == Cardinality({r \in 1..NRows(df) : df.rows[r][c].t \notin {"null", "nat"}})

\* C7: the Data Quality Report has one row per column, in column order,
\* with completeness (non-null / rows) x 100 and status OK from 90,
\* WARNING from 70 to below 90 and CRITICAL below 70; the overall score is
\* the mean of the completeness values.
C7_Quality ==
    HasSheet("Data Quality Report") =>
        LET q == Sheet("Data Quality Report")
            n == NRows(df)
        IN /\ Len(q.rows) = NCols(df)
           /\ \A c \in DOMAIN q.rows :
                 /\ q.rows[c].field = df.cols[c]
                 /\ q.rows[c].completeness.num * n
                       = Present(c) * 100 * q.rows[c].completeness.den
                 /\ q.rows[c].completeness.den # 0
                 /\ q.rows[c].status =
                       (CASE Present(c) * 100 >= 90 * n -> "OK"
                          [] Present(c) * 100 < 90 * n /\ Present(c) * 100 >= 70 * n
                                -> "WARNING"
                          [] OTHER -> "CRITICAL")
           /\ q.overall_score.den # 0
           /\ q.overall_score.num * n * NCols(df)
                 = q.overall_score.den
                   * SeqSum([c \in 1..NCols(df) |-> Present(c) * 100])

\* Ten rows with 9 vendors (at the threshold of OK), 7 amounts (at that of
\* WARNING) and 6 dates (CRITICAL).
C7_Witness ==
    /\ pc = "done"
    /\ NRows(df) = 10
    /\ Present(1) = 9
    /\ Sheet("Data Quality Report").rows[1].status = "OK"
    /\ Present(2) = 7
    /\ Sheet("Data Quality Report").rows[2].status = "WARNING"
    /\ Present(3) = 6
    /\ Sheet("Data Quality Report").rows[3].status = "CRITICAL"

\* C9 as stated: the top-vendor list has min(5, vendors) rows, each total
\* strictly greater than the next, no vendor outside it has more than one
\* inside it, and the ranks are 1, 2, ... in row order.
C9_Original ==
    HasSheet("Executive Summary") =>
        LET top == Sheet("Executive Summary").top_vendors
        IN /\ Len(top) = (IF Cardinality(ArgVendors) < 5
                          THEN Cardinality(ArgVendors) ELSE 5)
           /\ \A i \in 1..(Len(top) - 1) : top[i].sum > top[i + 1].sum
           /\ \A i \in DOMAIN top : top[i].rank = i
           /\ \A i \in DOMAIN top : top[i].sum = ArgAmount(VendorRows(top[i].vendor))
           /\ \A x \in ArgVendors \ {top[i].vendor : i \in DOMAIN top} :
                 \A i \in DOMAIN top : ArgAmount(VendorRows(x)) <= top[i].sum

\* C9, amended: the top-vendor list has min(5, vendors) rows of distinct
\* vendors, each total greater than or equal to the next (vendors with
\* equal totals follow one another), no vendor outside it has more than
\* one inside it, and the ranks are 1, 2, ... in row order.
C9_TopVendors ==
    HasSheet("Executive Summary") =>
        LET top == Sheet("Executive Summary").top_vendors
        IN /\ Len(top) = (IF Cardinality(ArgVendors) < 5
                          THEN Cardinality(ArgVendors) ELSE 5)
           /\ Cardinality({top[i].vendor : i \in DOMAIN top}) = Len(top)
           /\ \A i \in 1..(Len(top) - 1) : top[i].sum >= top[i + 1].sum
           /\ \A i \in DOMAIN top : top[i].rank = i
           /\ \A i \in DOMAIN top : top[i].sum = ArgAmount(VendorRows(top[i].vendor))
           /\ \A x \in ArgVendors \ {top[i].vendor : i \in DOMAIN top} :
                 \A i \in DOMAIN top : ArgAmount(VendorRows(x)) <= top[i].sum

\* Six vendors, the one with the largest total last in the table and one
\* left out of the list of five.
C9_Witness ==
    /\ pc = "done"
    /\ Cardinality(ArgVendors) = 6
    /\ Len(Sheet("Executive Summary").top_vendors) = 5
    /\ Sheet("Executive Summary").top_vendors[1].vendor = "E"
    /\ Sheet("Executive Summary").top_vendors[1].sum = 5000
    /\ Sheet("Executive Summary").top_vendors[2].sum = 2500

\* C8: two calls with the same input and no output path return different
\* paths, the second leaves the file of the first in place, and the two
\* files hold the same report.
C8_TwoArtifacts ==
    (Len(returned) = 2 /\ arg_path = NoPath) =>
        /\ returned[1] # returned[2]
        /\ files[returned[1]].call = 1
        /\ files[returned[2]].call = 2
        /\ files[returned[1]].sheets = files[returned[2]].sheets

\* ------------------------------------------------ coercion of one date

\* No date is supplied by val: it is missing, or the empty text.
NotSupplied(val) == IsNa(val) \/ val = Str("")

\* C11: the coercion of one date value gives null for a value that is
\* missing or empty, the calendar date for a text that parses, and for a
\* text that does not parse the invalid-date sentinel NaT, which no value
\* that supplies no date gives.
C11_DateCoercion ==
    Normalized =>
        \A r \in 1..NRows(arg_df) :
            LET val == Column(arg_df, "date")[r]
                got == ParseDate(val)
            IN /\ NotSupplied(val) => got = Null
               /\ (val.t = "str" /\ val.s \in DOMAIN DateText) =>
                     /\ got.t = "ts"
                     /\ CivilFromDays(got.n) = DateText[val.s]
               /\ (val.t = "str" /\ val.s # "" /\ val.s \notin DOMAIN DateText) =>
                     /\ got = NaT
                     /\ \A q \in 1..NRows(arg_df) :
                           NotSupplied(Column(arg_df, "date")[q]) =>
                               ParseDate(Column(arg_df, "date")[q]) # got

\* --------------------------------------------------------- top insights

\* The vendors of the caller's table whose amounts sum to less than 5000.
TailVendors == {x \in ArgVendors : ArgAmount(VendorRows(x)) < 5000}

\* The places of the insights with the given title in the list.
Titled(list, title) == {i \in DOMAIN list : list[i].insight.title = title}

\* C12: the insights of the Top Insights sheet hold the supplier
\* consolidation exactly when some vendor's total is below 5000 (a total
\* of 5000 is not below), and then with the number of these vendors and
\* the sum of their totals; they hold the vendor concentration exactly
\* once; they are numbered 1, 2, ... as written, the consolidation before
\* the concentration.
C12_Insights ==
    HasSheet("Top Insights") =>
        LET list == Sheet("Top Insights")
            cons == Titled(list, "SUPPLIER CONSOLIDATION")
            conc == Titled(list, "VENDOR CONCENTRATION")
        IN /\ (cons # {}) <=> (TailVendors # {})
           /\ Cardinality(cons) <= 1
           /\ Cardinality(conc) = 1
           /\ cons \cup conc = DOMAIN list
           /\ \A i \in DOMAIN list : list[i].idx = i
           /\ \A i \in cons : \A j \in conc : i < j /\ list[i].idx < list[j].idx
           /\ \A i \in cons :
                 /\ list[i].insight.count = Cardinality(TailVendors)
                 /\ list[i].insight.spend =
                       ArgAmount(UNION {VendorRows(x) : x \in TailVendors})

\* Reached: a report of a table with one vendor below 5000, one at 5000
\* and one above: the consolidation, of the one vendor and its 2500, is
\* insight 1 and the concentration insight 2.
C12_Witness ==
    /\ pc = "done"
    /\ Cardinality(ArgVendors) = 3
    /\ \E x \in ArgVendors : ArgAmount(VendorRows(x)) = 5000
    /\ \E x \in ArgVendors : ArgAmount(VendorRows(x)) > 5000
    /\ Cardinality(TailVendors) = 1
    /\ Len(Sheet("Top Insights")) = 2
    /\ Sheet("Top Insights")[1].insight.title = "SUPPLIER CONSOLIDATION"
    /\ Sheet("Top Insights")[1].insight.count = 1
    /\ Sheet("Top Insights")[1].insight.spend = 2500
    /\ Sheet("Top Insights")[2].insight.title = "VENDOR CONCENTRATION"

\* Reached: a report of a table without a vendor below 5000: the
\* concentration is the only insight, numbered 1.
C12_WitnessNoTail ==
    /\ pc = "done"
    /\ TailVendors = {}
    /\ \E x \in ArgVendors : ArgAmount(VendorRows(x)) = 5000
    /\ Len(Sheet("Top Insights")) = 1
    /\ Sheet("Top Insights")[1].idx = 1
    /\ Sheet("Top Insights")[1].insight.title = "VENDOR CONCENTRATION"

=============================================================================
